---------------------------- MODULE Spec2Model ----------------------------
(***************************************************************************)
(* Model of the firmware-file codec of pkg/uefi/file.go (File, SetSize,    *)
(* ChecksumAndAssemble, CreatePadFile, NewFile) and of the payload reader  *)
(* of pkg/cbfs/payload.go (PayloadRecord.Read).                            *)
(*                                                                         *)
(* Representation.  A byte is a number in 0..255.  A uint64 is kept as its *)
(* eight little-endian bytes (the form binary.Write gives it), so that its *)
(* full 64-bit width, wrap-around included, is exact.  A byte slice is a   *)
(* record [pre, fill, n]: the bytes of pre followed by n copies of fill,   *)
(* which lets a 16 MiB pad body be held without enumerating it.            *)
(***************************************************************************)
EXTENDS Integers, Sequences, FiniteSets, TLC

VARIABLES
    ErasePolarity,  \* Attributes.ErasePolarity, process-wide
    f,              \* the File object under construction / returned
    res,            \* outcome of the last call
    pc,             \* where the File object is in its life
    offset,         \* loop variable of the section walk in NewFile
    win,            \* the window last handed to NewFile
    calls,          \* the calls made so far, each with its arguments
    old,            \* Header as it was before the last call
    p,              \* the PayloadRecord
    ppc,            \* position inside PayloadRecord.Read
    pres,           \* outcome of PayloadRecord.Read
    pev,            \* what Read did so far: header reads, seek, body read
    pn              \* [bodySize, n]: the body size computed and the count in.Read gave

vars == <<ErasePolarity, f, res, pc, offset, win, calls, old, p, ppc, pres, pev, pn>>

fileVars == <<ErasePolarity, f, res, pc, offset, win, calls, old>>
payloadVars == <<p, ppc, pres, pev, pn>>

(***************************************************************************)
(* Bounds of the model.                                                    *)
(***************************************************************************)
MaxSegs == 3       \* segment headers one stream holds
MaxPayload == 3    \* largest Size of a payload file, and stream position

(***************************************************************************)
(* Bytes and 8-bit arithmetic.                                             *)
(***************************************************************************)
Sub8(a, b) == (a + 256 - (b % 256)) % 256

RECURSIVE Xor8Bits(_, _, _)
Xor8Bits(a, b, k) ==
    IF k = 0 THEN 0
    ELSE (((a % 2) + (b % 2)) % 2) + 2 * Xor8Bits(a \div 2, b \div 2, k - 1)

Xor8(a, b) == Xor8Bits(a, b, 8)

RECURSIVE SumSeq(_)
SumSeq(s) == IF s = <<>> THEN 0 ELSE (s[1] + SumSeq(Tail(s))) % 256

Rep(b, k) == [i \in 1..k |-> b]

(***************************************************************************)
(* uint64 as eight little-endian bytes.                                    *)
(***************************************************************************)
U64(n) == <<n % 256, (n \div 256) % 256, (n \div 65536) % 256,
            (n \div 16777216) % 256, 0, 0, 0, 0>>

U64Max == Rep(255, 8)

\* the value fits a non-negative machine int of the model (below 2^31)
U64Fits(u) == u[4] < 128 /\ \A i \in 5..8 : u[i] = 0

U64ToNat(u) == u[1] + 256 * u[2] + 65536 * u[3] + 16777216 * u[4]

\* u > n, for a natural n below 2^31
U64GT(u, n) == ~U64Fits(u) \/ U64ToNat(u) > n

\* u + k with the carry chain written out; k is small
U64Chain(u, k) ==
    LET t[i \in 1..8] == u[i] + (IF i = 1 THEN k ELSE t[i - 1] \div 256)
    IN  t

\* u + k modulo 2^64, as Go's uint64 addition
U64Add(u, k) == [i \in 1..8 |-> U64Chain(u, k)[i] % 256]

\* the addition u + k left the 64-bit range
U64AddOverflows(u, k) == U64Chain(u, k)[8] \div 256 # 0

(***************************************************************************)
(* Byte slices.                                                            *)
(***************************************************************************)
Buf(s) == [pre |-> s, fill |-> 0, n |-> 0]

Fill(b, k) == [pre |-> <<>>, fill |-> b, n |-> k]

BLen(b) == Len(b.pre) + b.n

\* b[i], zero-based
At(b, i) == IF i < Len(b.pre) THEN b.pre[i + 1] ELSE b.fill

\* b[:k], for k <= len(b)
Take(b, k) ==
    IF k <= Len(b.pre)
    THEN [pre |-> SubSeq(b.pre, 1, k), fill |-> 0, n |-> 0]
    ELSE [pre |-> b.pre, fill |-> b.fill, n |-> k - Len(b.pre)]

\* b[k:], for k <= len(b)
Drop(b, k) ==
    IF k <= Len(b.pre)
    THEN [pre |-> SubSeq(b.pre, k + 1, Len(b.pre)), fill |-> b.fill, n |-> b.n]
    ELSE [pre |-> <<>>, fill |-> b.fill, n |-> BLen(b) - k]

\* the bytes b[from:from+k] as a sequence, k small
Bytes(b, from, k) == [i \in 1..k |-> At(b, from + i - 1)]

\* append(a, b...), a being a fully enumerated slice
BufAppend(a, b) == [pre |-> a.pre \o b.pre, fill |-> b.fill, n |-> b.n]

\* the two slices hold the same bytes
BufEq(a, b) ==
    /\ BLen(a) = BLen(b)
    /\ \A i \in 0..(IF Len(a.pre) > Len(b.pre) THEN Len(a.pre) ELSE Len(b.pre)) :
            i < BLen(a) => At(a, i) = At(b, i)

Checksum8(b) == (SumSeq(b.pre) + b.fill * (b.n % 256)) % 256

\* three little-endian bytes as a 24-bit number
Read3Size(t) == U64(t[1] + 256 * t[2] + 65536 * t[3])

\* the low 24 bits, saturated to FF FF FF
Write3Size(u) ==
    IF U64GT(u, 16777214) THEN <<255, 255, 255>> ELSE <<u[1], u[2], u[3]>>

\* the smallest multiple of 4 that is >= x
Align4(x) == ((x + 3) \div 4) * 4

(***************************************************************************)
(* Constants of file.go.                                                   *)
(***************************************************************************)
FVFileTypeRaw == 1
FVFileTypeFreeForm == 2
FVFileTypePEIM == 6
FVFileTypeDriver == 7
FVFileTypeSMMCoreStandalone == 15
FVFileTypePad == 240

FileHeaderMinLength == 24
FileHeaderExtMinLength == 32
EmptyBodyChecksum == 170
FileStateValid == 7

ZeroGUID == Rep(0, 16)
FFGUID == Rep(255, 16)
\* the GUID of the NVRAM store (cef5b9a3-476d-497f-9fdc-e98143e0422c)
NVAR == <<163, 185, 245, 206, 109, 71, 127, 73, 159, 220, 233, 129, 67, 224, 66, 44>>

\* SupportedFiles[t]; a type the map does not hold reads as false
SupportedFiles(t) ==
    /\ t >= FVFileTypeFreeForm
    /\ t <= FVFileTypeSMMCoreStandalone
    /\ t # FVFileTypePEIM

(***************************************************************************)
(* The header and the File object.                                         *)
(***************************************************************************)
ZeroHeader ==
    [GUID |-> ZeroGUID, Checksum |-> [Header |-> 0, File |-> 0], Type |-> 0,
     Attributes |-> 0, Size |-> <<0, 0, 0>>, State |-> 0, ExtendedSize |-> U64(0)]

\* File{}
ZeroFile ==
    [Header |-> ZeroHeader, Sections |-> <<>>, NVarStore |-> FALSE,
     buf |-> Buf(<<>>), DataOffset |-> 0]

IsLarge(a) == a % 2 # 0

setLarge(a, large) == IF large THEN a + (IF a % 2 = 0 THEN 1 ELSE 0) ELSE a - (a % 2)

HasChecksum(a) == (a \div 64) % 2 # 0

SetState(fh, s) == [fh EXCEPT !.State = Xor8(s, ErasePolarity)]

HeaderLen(file) ==
    IF IsLarge(file.Header.Attributes) THEN FileHeaderExtMinLength ELSE FileHeaderMinLength

\* binary.Write(header, binary.LittleEndian, fh.FileHeader): 24 bytes
MarshalHeader(fh) ==
    fh.GUID \o <<fh.Checksum.Header, fh.Checksum.File, fh.Type, fh.Attributes>>
            \o fh.Size \o <<fh.State>>

\* binary.Write(header, binary.LittleEndian, fh): 32 bytes
MarshalHeaderExt(fh) == MarshalHeader(fh) \o fh.ExtendedSize

\* binary.Read(r, binary.LittleEndian, &f.Header.FileHeader) on >= 24 bytes
UnmarshalHeader(b) ==
    [GUID |-> Bytes(b, 0, 16),
     Checksum |-> [Header |-> At(b, 16), File |-> At(b, 17)],
     Type |-> At(b, 18), Attributes |-> At(b, 19),
     Size |-> Bytes(b, 20, 3), State |-> At(b, 23),
     ExtendedSize |-> U64(0)]

\* ChecksumHeader summing the standard 24 bytes whatever the header shape
ChecksumHeaderStandardOnly(file) ==
    LET fh == file.Header
        sum == Checksum8(Take(file.buf, FileHeaderMinLength))
    IN  Sub8(Sub8(sum, fh.Checksum.File), fh.State)

ChecksumHeader(file) ==
    LET fh == file.Header
        headerSize == IF IsLarge(fh.Attributes) THEN FileHeaderExtMinLength
                      ELSE FileHeaderMinLength
        sum == Checksum8(Take(file.buf, headerSize))
    IN  Sub8(Sub8(sum, fh.Checksum.File), fh.State)

SetSize(file, size, resizeFile) ==
    LET big == U64GT(size, 16777215)
        ext == IF big /\ resizeFile
               THEN U64Add(size, FileHeaderExtMinLength - FileHeaderMinLength)
               ELSE size
        att == IF big THEN setLarge(setLarge(file.Header.Attributes, FALSE), TRUE)
               ELSE setLarge(file.Header.Attributes, FALSE)
    IN  [file EXCEPT !.Header.ExtendedSize = ext,
                     !.Header.Attributes = att,
                     !.Header.Size = Write3Size(ext)]

\* the header checksum byte ChecksumAndAssemble stores
NewHeaderChecksum(file) ==
    Sub8(file.Header.Checksum.Header,
         ChecksumHeader([file EXCEPT !.buf = Buf(MarshalHeaderExt(file.Header))]))

\* the body checksum stored as the sum itself, not its negation
NewFileChecksumNotNegated(fh, fileData) ==
    IF HasChecksum(fh.Attributes) THEN Checksum8(fileData)
    ELSE EmptyBodyChecksum

\* the body checksum byte ChecksumAndAssemble stores
NewFileChecksum(fh, fileData) ==
    IF HasChecksum(fh.Attributes) THEN Sub8(0, Checksum8(fileData))
    ELSE EmptyBodyChecksum

\* the header bytes ChecksumAndAssemble writes out
FinalHeader(fh) ==
    IF IsLarge(fh.Attributes) THEN MarshalHeaderExt(fh) ELSE MarshalHeader(fh)

ChecksumAndAssemble(file, fileData) ==
    LET fh == [file.Header EXCEPT
                  !.Checksum.Header = NewHeaderChecksum(file),
                  !.Checksum.File = NewFileChecksum(file.Header, fileData)]
    IN  [file EXCEPT !.Header = fh,
                     !.buf = BufAppend(Buf(FinalHeader(fh)), fileData)]

\* the GUID CreatePadFile picks
PadGUID == IF ErasePolarity = 255 \/ TRUE THEN FFGUID ELSE ZeroGUID

\* CreatePadFile refuses the erase polarity
PadPolarityRefused == ~(ErasePolarity = 255 \/ TRUE) /\ ErasePolarity # 0

\* CreatePadFile(size): [err, f]
CreatePadFile(size) ==
    IF size < FileHeaderMinLength \/ PadPolarityRefused
    THEN [err |-> TRUE, f |-> ZeroFile]
    ELSE
    LET f0 == [ZeroFile EXCEPT !.Header.GUID = PadGUID, !.Header.Attributes = 0]
        f1 == SetSize(f0, U64(size), FALSE)
        f2 == [f1 EXCEPT !.Header.Type = FVFileTypePad]
        fileData == IF IsLarge(f2.Header.Attributes)
                    THEN Fill(ErasePolarity, size - FileHeaderExtMinLength)
                    ELSE Fill(ErasePolarity, size - FileHeaderMinLength)
        f3 == [f2 EXCEPT !.Header = SetState(f2.Header, FileStateValid)]
    IN  [err |-> FALSE, f |-> ChecksumAndAssemble(f3, fileData)]

(***************************************************************************)
(* NewFile, up to the section walk.                                        *)
(***************************************************************************)
\* the extended header told by the large attribute bit, not the size field
IsExtendedByAttribute(fh) == IsLarge(fh.Attributes)

\* f.Header.Size == [3]uint8{0xFF, 0xFF, 0xFF}
IsExtended(fh) == fh.Size = <<255, 255, 255>>

\* f.Header.ExtendedSize == 0xFFFFFFFFFFFFFFFF
IsFreeSpace(es) == es = U64Max

\* f.Header.ExtendedSize > uint64(buflen)
SizeTooBig(es, buflen) == U64GT(es, buflen)

\* make + copy: a slice of its own with the same bytes
CopyOf(b) == b

\* the outcome of NewFile(b) before the walk: kind is "error" (nil, err),
\* "free" (nil, nil), "panic" (slice bounds out of range), "file" (&f, nil)
\* or "walk" (the section loop is entered).  ReadOnly is the process-wide
\* setting as the call reads it; nsOk is whether NewNVarStore decodes the body
NewFile(b, ReadOnly, nsOk) ==
    IF BLen(b) < FileHeaderMinLength THEN [kind |-> "error", f |-> ZeroFile]
    ELSE
    LET fh == UnmarshalHeader(b) IN
    IF IsExtended(fh) /\ BLen(b) < FileHeaderExtMinLength
    THEN [kind |-> "error", f |-> ZeroFile]
    ELSE
    LET es == IF IsExtended(fh) THEN Bytes(b, FileHeaderMinLength, 8)
              ELSE Read3Size(fh.Size)
        dataOffset == IF IsExtended(fh) THEN FileHeaderExtMinLength
                      ELSE FileHeaderMinLength
    IN
    IF IsExtended(fh) /\ IsFreeSpace(es) THEN [kind |-> "free", f |-> ZeroFile]
    ELSE IF SizeTooBig(es, BLen(b)) THEN [kind |-> "error", f |-> ZeroFile]
    ELSE
    LET fbuf == IF ReadOnly THEN Take(b, U64ToNat(es))
                ELSE CopyOf(Take(b, U64ToNat(es)))
        isNVar == fh.Type = FVFileTypeRaw /\ fh.GUID = NVAR
        file == [ZeroFile EXCEPT !.Header = [fh EXCEPT !.ExtendedSize = es],
                                 !.buf = fbuf,
                                 !.DataOffset = dataOffset,
                                 !.NVarStore = isNVar /\ nsOk]
    IN
    IF isNVar /\ dataOffset > BLen(fbuf) THEN [kind |-> "panic", f |-> ZeroFile]
    ELSE IF ~SupportedFiles(fh.Type) THEN [kind |-> "file", f |-> file]
    ELSE [kind |-> "walk", f |-> file]

(***************************************************************************)
(* Inputs.                                                                 *)
(***************************************************************************)
\* what follows the 24 header bytes in a window
Tails ==
    { <<>>, <<1, 255, 0, 0>>,
      <<1, 2, 3, 4, 5, 6, 7, 8, 9, 10, 11, 12, 13, 14, 15, 16>>,
      U64Max, U64(8), U64(36) \o <<1, 255, 0, 0>>,
      U64(48) \o <<1, 2, 3, 4>>,
      <<0, 0, 0, 0, 1, 0, 0, 0>> \o <<1, 2, 3, 4>>,
      <<255, 255, 255>> }

WinSizes == { <<16, 0, 0>>, <<24, 0, 0>>, <<28, 0, 0>>, <<40, 0, 0>>, <<255, 255, 255>> }

\* a window with the header fields given.  With validCk the two checksum
\* bytes are the ones an assembler leaves: the header (of the length the
\* large bit gives) sums to zero, and the file byte is 0xAA or, with the
\* checksum bit, the negated sum of the body the size field delimits.
\* Without it both are stale.
MkWindow(gt, attr, size, validCk, tail) ==
    LET fh == [ZeroHeader EXCEPT !.GUID = gt[1], !.Type = gt[2], !.Attributes = attr,
                                 !.Size = size, !.State = 248,
                                 !.Checksum.File = 85, !.Checksum.Header = 17]
        raw == MarshalHeader(fh) \o tail
        hl == IF IsLarge(attr) THEN FileHeaderExtMinLength ELSE FileHeaderMinLength
        es == IF size = <<255, 255, 255>>
              THEN (IF Len(tail) >= 8 THEN SubSeq(tail, 1, 8) ELSE U64(0))
              ELSE Read3Size(size)
        end == IF U64GT(es, Len(raw)) THEN Len(raw) ELSE U64ToNat(es)
        body == SubSeq(raw, hl + 1, end)
        cf == IF ~validCk THEN 85
              ELSE IF HasChecksum(attr) THEN Sub8(0, SumSeq(body))
              ELSE EmptyBodyChecksum
        sum == Sub8(SumSeq(SubSeq(raw, 1, hl)), 85)
        ck == IF validCk /\ Len(raw) >= hl THEN Sub8(17, Sub8(sum, 248)) ELSE 17
    IN  Buf(MarshalHeader([fh EXCEPT !.Checksum.Header = ck, !.Checksum.File = cf])
            \o tail)

Windows ==
    { MkWindow(gt, a, sz, v, t) :
        gt \in { <<FFGUID, FVFileTypeRaw>>, <<NVAR, FVFileTypeRaw>>,
                 <<FFGUID, FVFileTypeDriver>> },
        a \in {0, 1, 64, 65}, sz \in WinSizes, v \in BOOLEAN, t \in Tails }
    \cup { Buf(<<>>), Buf(Rep(255, 10)), Buf(Rep(0, 23)) }

\* the headers a caller builds a File with
LiteralHeaders ==
    { [GUID |-> FFGUID, Checksum |-> [Header |-> ch, File |-> cf], Type |-> ty,
       Attributes |-> a, Size |-> sz, State |-> st, ExtendedSize |-> es] :
        ch \in {0, 90}, cf \in {0, 51}, ty \in {FVFileTypeRaw},
        a \in {0, 1, 64, 65, 9},
        sz \in { <<40, 0, 0>>, <<255, 255, 255>> },
        st \in {0, 248}, es \in {U64(40), U64Max} }

\* sizes given to SetSize
Sizes ==
    { U64(24), U64(16777215), U64(16777216),
      <<247, 255, 255, 255, 255, 255, 255, 255>>,
      <<248, 255, 255, 255, 255, 255, 255, 255>>, U64Max }

\* bodies given to ChecksumAndAssemble
Bodies == { Buf(<<>>), Buf(<<1, 2, 3>>), Fill(255, 300) }

\* sizes given to CreatePadFile
PadSizes == { 0, 23, 24, 25, 32, 40, 16777214, 16777215, 16777216, 16777224 }

\* a call: its name and its arguments (those it does not take left empty)
Call(name) == [name |-> name, buf |-> Buf(<<>>), size |-> U64(0), resize |-> FALSE, n |-> 0]

\* what the delegated section decoder may answer: an error, or a section
\* with an extended size (a uint32; the last one stands for any size far
\* beyond the file)
SectionResults ==
    { [err |-> TRUE, size |-> 0] } \cup
    { [err |-> FALSE, size |-> n] : n \in {0, 1, 4, 5, 1073741824} }

(***************************************************************************)
(* The section walk of NewFile.                                            *)
(***************************************************************************)
\* the loop condition: offset < f.Header.ExtendedSize
WalkContinues(off, es) == U64GT(es, off)

\* err != nil, or s.Header.ExtendedSize == 0
SectionRejected(r) == r.err \/ r.size = 0

\* the offset moved on without the alignment
NextOffsetUnaligned(off, size) == off + size

\* offset += size; offset = Align4(offset)
NextOffset(off, size) == Align4(off + size)

(***************************************************************************)
(* Calls on the File object.                                               *)
(***************************************************************************)
\* the last call made, and the one before it
arg == calls[Len(calls)]
op == IF calls = <<>> THEN "none" ELSE arg.name
prevOp == IF Len(calls) < 2 THEN "none" ELSE calls[Len(calls) - 1].name

Init ==
    /\ ErasePolarity \in {0, 255}
    /\ f = ZeroFile
    /\ res = "none"
    /\ pc = "start"
    /\ offset = 0
    /\ win = Buf(<<>>)
    /\ calls = <<>>
    /\ old = ZeroHeader
    /\ p = [Size |-> 0, Segs |-> <<>>, FData |-> 0]
    /\ ppc = "start"
    /\ pres = "none"
    /\ pev = <<>>
    /\ pn = [bodySize |-> 0, n |-> 0]

\* NewFile(b), from its entry to its return or to the head of the walk
Parse(b) ==
    \E ReadOnly \in BOOLEAN, nsOk \in BOOLEAN :
        LET r == NewFile(b, ReadOnly, nsOk) IN
        /\ f' = r.f
        /\ res' = IF r.kind = "walk" THEN "pending" ELSE r.kind
        /\ pc' = CASE r.kind = "walk" -> "walk"
                   [] r.kind = "file" -> IF pc = "start" THEN "ready" ELSE "done"
                   [] OTHER -> "dead"
        /\ offset' = r.f.DataOffset
        /\ win' = b
        /\ calls' = Append(calls, [Call("NewFile") EXCEPT !.buf = b])
        /\ old' = f.Header

NewFileCall ==
    /\ pc = "start"
    /\ \E b \in Windows : Parse(b)
    /\ UNCHANGED ErasePolarity
    /\ UNCHANGED payloadVars

\* NewFile(f.Buf()): the assembled file is parsed again
ReparseCall ==
    /\ pc = "assembled"
    /\ Parse(f.buf)
    /\ UNCHANGED ErasePolarity
    /\ UNCHANGED payloadVars

\* one iteration of the section loop
WalkStep ==
    /\ pc = "walk"
    /\ WalkContinues(offset, f.Header.ExtendedSize)
    /\ \E r \in SectionResults :
        IF SectionRejected(r)
        THEN /\ f' = ZeroFile
             /\ res' = "error"
             /\ pc' = "dead"
             /\ offset' = offset
        ELSE /\ f' = [f EXCEPT !.Sections = Append(@, [off |-> offset, size |-> r.size])]
             /\ offset' = NextOffset(offset, r.size)
             /\ UNCHANGED <<res, pc>>
    /\ UNCHANGED <<ErasePolarity, win, calls, old>>
    /\ UNCHANGED payloadVars

\* the loop condition fails: return &f, nil
WalkDone ==
    /\ pc = "walk"
    /\ ~WalkContinues(offset, f.Header.ExtendedSize)
    /\ res' = "file"
    /\ pc' = IF Len(calls) = 1 THEN "ready" ELSE "done"
    /\ UNCHANGED <<ErasePolarity, f, offset, win, calls, old>>
    /\ UNCHANGED payloadVars

\* File{Header: h}: a caller builds a File and fills in its header
LiteralCall ==
    /\ pc = "start"
    /\ \E h \in LiteralHeaders :
        /\ f' = [ZeroFile EXCEPT !.Header = h]
        /\ old' = h
    /\ res' = "file"
    /\ pc' = "ready"
    /\ calls' = Append(calls, Call("Literal"))
    /\ UNCHANGED <<ErasePolarity, offset, win>>
    /\ UNCHANGED payloadVars

SetSizeCall ==
    /\ pc = "ready"
    /\ \E size \in Sizes, resize \in BOOLEAN :
        /\ f' = SetSize(f, size, resize)
        /\ calls' = Append(calls, [Call("SetSize") EXCEPT !.size = size, !.resize = resize])
    /\ res' = "ok"
    /\ pc' = "sized"
    /\ old' = f.Header
    /\ UNCHANGED <<ErasePolarity, offset, win>>
    /\ UNCHANGED payloadVars

\* f.ChecksumAndAssemble(body)
AssembleCall ==
    /\ pc \in {"ready", "sized"}
    /\ \E body \in Bodies :
        /\ f' = ChecksumAndAssemble(f, body)
        /\ calls' = Append(calls, [Call("ChecksumAndAssemble") EXCEPT !.buf = body])
    /\ res' = "ok"
    /\ pc' = "assembled"
    /\ old' = f.Header
    /\ UNCHANGED <<ErasePolarity, offset, win>>
    /\ UNCHANGED payloadVars

\* f.ChecksumAndAssemble(f.Buf()[f.DataOffset:]); the slice expression
\* panics when DataOffset is beyond the buffer
ReassembleCall ==
    /\ pc = "ready"
    /\ IF f.DataOffset > BLen(f.buf)
       THEN /\ res' = "panic"
            /\ pc' = "dead"
            /\ f' = f
            /\ calls' = Append(calls, Call("Reassemble"))
       ELSE /\ f' = ChecksumAndAssemble(f, Drop(f.buf, f.DataOffset))
            /\ calls' = Append(calls, [Call("Reassemble") EXCEPT
                                          !.buf = Drop(f.buf, f.DataOffset)])
            /\ res' = "ok"
            /\ pc' = "assembled"
    /\ old' = f.Header
    /\ UNCHANGED <<ErasePolarity, offset, win>>
    /\ UNCHANGED payloadVars

CreatePadFileCall ==
    /\ pc = "start"
    /\ \E size \in PadSizes :
        LET r == CreatePadFile(size) IN
        /\ f' = r.f
        /\ res' = IF r.err THEN "error" ELSE "file"
        /\ pc' = IF r.err THEN "dead" ELSE "assembled"
        /\ calls' = Append(calls, [Call("CreatePadFile") EXCEPT !.n = size])
    /\ old' = f.Header
    /\ UNCHANGED <<ErasePolarity, offset, win>>
    /\ UNCHANGED payloadVars

(***************************************************************************)
(* PayloadRecord.Read.                                                     *)
(***************************************************************************)
SegEntry == "SegEntry"

\* the segment types a stream may hold
SegTypes == {"SegCode", "SegData", "SegBSS", SegEntry}

\* what Read(in, &h) may give: an error, or a header of some type
HeaderResults ==
    { [err |-> TRUE, type |-> "SegCode"] } \cup
    { [err |-> FALSE, type |-> t] : t \in SegTypes }

\* the loop breaking on any segment that is not code
IsLastSegmentLoose(h) == h.type # "SegCode"

\* h.Type == SegEntry: the loop breaks
IsLastSegment(h) == h.type = SegEntry

\* bodySize := int64(p.Size) - offset
BodySize(size, off) == size - off

\* len(p.FData) once in.Read has given n bytes of the bodySize asked for
BodyLen(bodySize, n) == bodySize

\* NewPayloadRecord(f): the record of a file of some Size, no segment yet
NewPayloadRecordCall ==
    /\ ppc = "start"
    /\ \E size \in 0..MaxPayload : p' = [Size |-> size, Segs |-> <<>>, FData |-> 0]
    /\ ppc' = "segs"
    /\ UNCHANGED <<pres, pev, pn>>
    /\ UNCHANGED fileVars

\* one iteration of the header loop; a stream holds MaxSegs headers at most
ReadSegment ==
    /\ ppc = "segs"
    /\ \E r \in HeaderResults :
        /\ ~r.err => Len(p.Segs) < MaxSegs
        /\ IF r.err
           THEN /\ pres' = "error"
                /\ ppc' = "done"
                /\ pev' = Append(pev, "hdrerr")
                /\ p' = p
           ELSE /\ p' = [p EXCEPT !.Segs = Append(@, r.type)]
                /\ ppc' = IF IsLastSegment(r) THEN "body" ELSE "segs"
                /\ pev' = Append(pev, "hdr")
                /\ pres' = pres
    /\ UNCHANGED pn
    /\ UNCHANGED fileVars

\* the rest of Read: the position is asked for, the body size computed and
\* the body read once; off, n and the two errors are the stream's answers
ReadBody ==
    /\ ppc = "body"
    /\ ppc' = "done"
    /\ \E off \in 0..(MaxPayload + 1), seekErr \in BOOLEAN :
        IF seekErr
        THEN /\ pres' = "error"
             /\ pev' = Append(pev, "seekerr")
             /\ UNCHANGED <<p, pn>>
        ELSE IF BodySize(p.Size, off) <= 0
        THEN /\ pres' = "ok"
             /\ pev' = Append(pev, "seek")
             /\ pn' = [bodySize |-> BodySize(p.Size, off), n |-> 0]
             /\ p' = p
        ELSE \E n \in 0..BodySize(p.Size, off), readErr \in BOOLEAN :
             /\ pres' = IF readErr THEN "error" ELSE "ok"
             /\ pev' = pev \o <<"seek", IF readErr THEN "readerr" ELSE "read">>
             /\ pn' = [bodySize |-> BodySize(p.Size, off), n |-> n]
             /\ p' = [p EXCEPT !.FData = BodyLen(BodySize(p.Size, off), n)]
    /\ UNCHANGED fileVars

(***************************************************************************)
(* Specifications.                                                         *)
(***************************************************************************)
\* a window is parsed, its sections walked, and the file assembled again
Next ==
    \/ NewFileCall
    \/ WalkStep
    \/ WalkDone
    \/ ReassembleCall

Spec == Init /\ [][Next]_vars

\* the section loop is sequential code: it runs on
SpecFair == Spec /\ WF_vars(WalkStep) /\ WF_vars(WalkDone)

\* a file is built, sized, assembled, and parsed back
NextBuild ==
    \/ LiteralCall
    \/ CreatePadFileCall
    \/ SetSizeCall
    \/ AssembleCall
    \/ ReparseCall

SpecBuild == Init /\ [][NextBuild]_vars

\* a payload record is read from a stream
NextPayload ==
    \/ NewPayloadRecordCall
    \/ ReadSegment
    \/ ReadBody

SpecPayload == Init /\ [][NextPayload]_vars

(***************************************************************************)
(* What a window says, read off its bytes.                                 *)
(***************************************************************************)
WinSizeFF(w) == At(w, 20) = 255 /\ At(w, 21) = 255 /\ At(w, 22) = 255

WinLargeBit(w) == At(w, 19) % 2 = 1

WinChecksumBit(w) == (At(w, 19) \div 64) % 2 = 1

\* the size the window announces
WinDeclared(w) ==
    IF WinSizeFF(w) THEN Bytes(w, 24, 8)
    ELSE U64(At(w, 20) + 256 * At(w, 21) + 65536 * At(w, 22))

\* the window is the start of free space
WinFree(w) == WinSizeFF(w) /\ \A i \in 24..31 : At(w, i) = 255

WinHeaderLen(w) == IF WinLargeBit(w) THEN 32 ELSE 24

\* the body the window's header delimits (empty when the size is below the header)
WinBody(w) ==
    IF U64ToNat(WinDeclared(w)) >= WinHeaderLen(w)
    THEN Drop(Take(w, U64ToNat(WinDeclared(w))), WinHeaderLen(w))
    ELSE Buf(<<>>)

\* a well-formed input file: the header sums to zero without State and the
\* file checksum, the file checksum byte is the valid one (0xAA, or with the
\* checksum bit the body summing to zero and the byte with it), the large
\* bit goes with the FF FF FF size field, and the size fits the window
WellFormed(w) ==
    /\ BLen(w) >= 24
    /\ WinLargeBit(w) <=> WinSizeFF(w)
    /\ BLen(w) >= WinHeaderLen(w)
    /\ ~U64GT(WinDeclared(w), BLen(w))
    /\ (Checksum8(Take(w, WinHeaderLen(w))) + 512 - At(w, 17) - At(w, 23)) % 256 = 0
    /\ IF WinChecksumBit(w)
       THEN Checksum8(WinBody(w)) = 0 /\ At(w, 17) = 0
       ELSE At(w, 17) = 170

(***************************************************************************)
(* Claims about parsing (Spec, SpecFair).                                  *)
(***************************************************************************)
\* C1: a well-formed window parsed by NewFile and assembled again from
\* Buf()[DataOffset:], with nothing changed in between, gives back the
\* bytes buf[0..ExtendedSize] of the window.
C1_RoundTrip ==
    (op = "Reassemble" /\ WellFormed(win)) =>
        /\ res = "ok"
        /\ BufEq(f.buf, Take(win, U64ToNat(WinDeclared(win))))

\* The round trip of C1 where the announced size holds the header.
RoundTripWhenHeaderFits ==
    (op = "Reassemble" /\ WellFormed(win)
        /\ U64ToNat(WinDeclared(win)) >= WinHeaderLen(win)) =>
        /\ res = "ok"
        /\ BufEq(f.buf, Take(win, U64ToNat(WinDeclared(win))))

RoundTripReached ==
    /\ op = "Reassemble" /\ WellFormed(win) /\ res = "ok"
    /\ WinChecksumBit(win) /\ WinLargeBit(win)
    /\ BLen(f.buf) > 32

\* C4: on a window of 32 bytes or more NewFile gives the free-space signal
\* exactly when the size field is FF FF FF and the extended size is all
\* ones; otherwise an announced size beyond the window is an error with no
\* file; a window shorter than the header it announces is an error.
C4_NewFileOutcome ==
    op = "NewFile" =>
        /\ BLen(win) >= 32 =>
            /\ (res = "free") <=> WinFree(win)
            /\ (~WinFree(win) /\ U64GT(WinDeclared(win), BLen(win))) =>
                    (res = "error" /\ f = ZeroFile)
        /\ (BLen(win) < 24 \/ (BLen(win) < 32 /\ WinSizeFF(win))) => res = "error"

C4_FreeSpaceReached ==
    /\ op = "NewFile" /\ BLen(win) >= 32
    /\ res = "free" /\ ~WinLargeBit(win)

\* C10: NewFile never slices out of bounds, and a file it returns has
\* ExtendedSize >= DataOffset: a size below the header length is refused.
C10_HeaderFits ==
    op = "NewFile" =>
        /\ res # "panic"
        /\ res = "file" => U64ToNat(f.Header.ExtendedSize) >= f.DataOffset

\* the offsets the walk has reached so far
SectionsWellPlaced(file) ==
    LET S == file.Sections IN
    /\ S # <<>> => S[1].off = file.DataOffset
    /\ \A i \in 1..Len(S) :
        /\ S[i].off % 4 = 0
        /\ S[i].off < U64ToNat(file.Header.ExtendedSize)
        /\ S[i].size > 0
    /\ \A i \in 1..(Len(S) - 1) :
        /\ S[i + 1].off > S[i].off
        /\ S[i + 1].off = ((S[i].off + S[i].size + 3) \div 4) * 4

\* a step of the walk either fails, leaving an error and no file, or adds
\* one section of a size above 0 at the current offset and moves on, or,
\* the offset having reached ExtendedSize, returns the file as it is
WalkStepOutcome ==
    pc = "walk" =>
        \/ pc' = "dead" /\ res' = "error" /\ f' = ZeroFile
        \/ /\ pc' = "walk"
           /\ offset < U64ToNat(f.Header.ExtendedSize)
           /\ Len(f'.Sections) = Len(f.Sections) + 1
           /\ f'.Sections[Len(f'.Sections)].off = offset
           /\ f'.Sections[Len(f'.Sections)].size > 0
           /\ offset' > offset
        \/ /\ pc' \in {"ready", "done"}
           /\ res' = "file" /\ f' = f
           /\ ~(offset < U64ToNat(f.Header.ExtendedSize))

\* C8: the section walk of NewFile ends, whatever the section decoder
\* answers; a section that fails to decode or has size 0 gives an error and
\* no file; otherwise the sections start at DataOffset, at strictly
\* increasing multiples of 4 below ExtendedSize, each at
\* Align4(previous offset + previous size).
C8_WalkTerminates ==
    /\ [](pc \in {"walk", "ready"} => SectionsWellPlaced(f))
    /\ [][WalkStepOutcome]_vars
    /\ ((pc = "walk") ~> (pc # "walk"))

C8_TailCrossingReached ==
    /\ pc = "ready" /\ op = "NewFile" /\ res = "file"
    /\ Len(f.Sections) >= 2
    /\ offset > U64ToNat(f.Header.ExtendedSize)

(***************************************************************************)
(* Claims about assembly (SpecBuild).                                      *)
(***************************************************************************)
\* ChecksumAndAssemble has returned (CreatePadFile ends with it)
Assembled == op = "ChecksumAndAssemble" \/ (op = "CreatePadFile" /\ res = "file")

\* the body the last assembly was given
AssembledBody == IF op = "CreatePadFile" THEN Drop(f.buf, HeaderLen(f)) ELSE arg.buf

\* C2: after ChecksumAndAssemble, whatever the header fields were before
\* (stale checksums included) and for both header shapes, the 8-bit sum of
\* the first HeaderLen() bytes of Buf(), minus Checksum.File, minus State,
\* is 0 modulo 256.
C2_HeaderChecksum ==
    Assembled =>
        (Checksum8(Take(f.buf, HeaderLen(f))) + 512
            - f.Header.Checksum.File - f.Header.State) % 256 = 0

C2_StaleLargeReached ==
    /\ op = "ChecksumAndAssemble"
    /\ IsLarge(f.Header.Attributes)
    /\ f.Header.Checksum.Header # old.Checksum.Header
    /\ old.Checksum.File # f.Header.Checksum.File
    /\ f.Header.State # 0

\* C3 as stated: after ChecksumAndAssemble(body), with the HasChecksum bit
\* the 8-bit sum over the body bytes is 0 modulo 256; without it
\* Checksum.File is 0xAA.
C3_BodySumsToZero ==
    Assembled =>
        IF (f.Header.Attributes \div 64) % 2 = 1
        THEN Checksum8(AssembledBody) = 0
        ELSE f.Header.Checksum.File = 170

\* C3 amended: after ChecksumAndAssemble(body), with the HasChecksum bit
\* the 8-bit sum over the body bytes plus Checksum.File is 0 modulo 256
\* (Checksum.File is the negated body sum); without it Checksum.File is 0xAA.
C3_BodyChecksum ==
    Assembled =>
        IF (f.Header.Attributes \div 64) % 2 = 1
        THEN (Checksum8(AssembledBody) + f.Header.Checksum.File) % 256 = 0
        ELSE f.Header.Checksum.File = 170

C3_NonZeroBodyReached ==
    /\ op = "ChecksumAndAssemble"
    /\ (f.Header.Attributes \div 64) % 2 = 1
    /\ Checksum8(arg.buf) # 0
    /\ f.Header.Checksum.File # old.Checksum.File

\* min(es, 0xFFFFFF) as the three bytes of the size field
Min3(es) == IF U64GT(es, 16777215) THEN <<255, 255, 255>> ELSE <<es[1], es[2], es[3]>>

\* C5: after SetSize(size, resize), for every 64-bit size, the large bit is
\* set iff size > 0xFFFFFF; ExtendedSize is size + 8 when size > 0xFFFFFF
\* and resize is true, and size otherwise; the 3-byte Size is
\* min(ExtendedSize, 0xFFFFFF); HeaderLen() is 32 iff the large bit is set,
\* else 24; the other attribute bits are unchanged.
C5_SetSize ==
    op = "SetSize" =>
        LET big == U64GT(arg.size, 16777215) IN
        /\ (f.Header.Attributes % 2 = 1) <=> big
        /\ IF big /\ arg.resize
           THEN /\ f.Header.ExtendedSize = U64Add(arg.size, 8)
                /\ ~U64AddOverflows(arg.size, 8)
           ELSE f.Header.ExtendedSize = arg.size
        /\ f.Header.Size = Min3(f.Header.ExtendedSize)
        /\ HeaderLen(f) = (IF f.Header.Attributes % 2 = 1 THEN 32 ELSE 24)
        /\ f.Header.Attributes \div 2 = old.Attributes \div 2

\* C5 where size + 8 stays within 64 bits.
SetSizeWithoutWrap ==
    (op = "SetSize" /\ ~(arg.resize /\ U64AddOverflows(arg.size, 8))) =>
        LET big == U64GT(arg.size, 16777215) IN
        /\ (f.Header.Attributes % 2 = 1) <=> big
        /\ f.Header.ExtendedSize = (IF big /\ arg.resize THEN U64Add(arg.size, 8)
                                    ELSE arg.size)
        /\ f.Header.Size = Min3(f.Header.ExtendedSize)
        /\ HeaderLen(f) = (IF f.Header.Attributes % 2 = 1 THEN 32 ELSE 24)
        /\ f.Header.Attributes \div 2 = old.Attributes \div 2

\* the size the pad file before the last call was asked for
PadSize == calls[Len(calls) - 1].n

\* C9: for every size >= 24 and either erase polarity, CreatePadFile(size)
\* gives a buffer of size bytes whose size field is FF FF FF iff the large
\* bit is set, and NewFile on that buffer returns a file of type Pad with
\* ExtendedSize = size and DataOffset = the created file's HeaderLen().
C9_PadRoundTrip ==
    /\ (op = "CreatePadFile" /\ arg.n >= 24) =>
        /\ res = "file"
        /\ BLen(f.buf) = arg.n
        /\ (f.Header.Size = <<255, 255, 255>>) <=> (f.Header.Attributes % 2 = 1)
    /\ (op = "NewFile" /\ prevOp = "CreatePadFile") =>
        /\ res = "file"
        /\ f.Header.Type = 240
        /\ f.Header.ExtendedSize = U64(PadSize)
        /\ f.DataOffset = (IF old.Attributes % 2 = 1 THEN 32 ELSE 24)

\* C9 for every size but 0xFFFFFF.
PadRoundTripOffBoundary ==
    /\ (op = "CreatePadFile" /\ arg.n >= 24 /\ arg.n # 16777215) =>
        /\ res = "file"
        /\ BLen(f.buf) = arg.n
        /\ (f.Header.Size = <<255, 255, 255>>) <=> (f.Header.Attributes % 2 = 1)
    /\ (op = "NewFile" /\ prevOp = "CreatePadFile" /\ PadSize # 16777215) =>
        /\ res = "file"
        /\ f.Header.Type = 240
        /\ f.Header.ExtendedSize = U64(PadSize)
        /\ f.DataOffset = (IF old.Attributes % 2 = 1 THEN 32 ELSE 24)

(***************************************************************************)
(* Claims about the payload reader (SpecPayload).                          *)
(***************************************************************************)
Happened(e) == \E i \in 1..Len(pev) : pev[i] = e

\* C6: when Read on a fresh record returns without error (the tolerated
\* negative and zero body sizes included) the segment list is not empty, its
\* last segment is a SegEntry and no earlier one is; when reading a segment
\* header fails, Read returns the error and never reaches the body step.
C6_SegmentList ==
    /\ (ppc = "done" /\ pres = "ok") =>
        /\ p.Segs # <<>>
        /\ p.Segs[Len(p.Segs)] = "SegEntry"
        /\ \A i \in 1..(Len(p.Segs) - 1) : p.Segs[i] # "SegEntry"
    /\ Happened("hdrerr") =>
        /\ ppc = "done" /\ pres = "error"
        /\ ~Happened("seek") /\ ~Happened("seekerr")
        /\ ~Happened("read") /\ ~Happened("readerr")

C6_NegativeBodyReached ==
    /\ ppc = "done" /\ pres = "ok"
    /\ Len(p.Segs) >= 2
    /\ pn.bodySize < 0

\* C7: when the body size is positive and the single stream read gives
\* n < body size bytes without error, Read succeeds and the body has
\* length n, not the body size.
C7_ShortRead ==
    (ppc = "done" /\ Happened("read") /\ pn.bodySize > 0 /\ pn.n < pn.bodySize) =>
        /\ pres = "ok"
        /\ p.FData = pn.n

\* what Read does there: the body keeps the length it was allocated with.
ShortReadKeepsAllocatedLength ==
    (ppc = "done" /\ Happened("read") /\ pn.bodySize > 0) =>
        /\ pres = "ok"
        /\ p.FData = pn.bodySize

=============================================================================
